---- MODULE Spec2Model ----
(***************************************************************************)
(* FinGenius ML training script (backend/scripts/train_models.py).         *)
(*                                                                         *)
(* The model covers the driver object FinGeniusMLTrainer: its two mapping  *)
(* containers (models, scalers), the four trainer methods that fill them,  *)
(* the fraud data generator, and the persistence layer (save_models,       *)
(* load_models) over the models directory.                                 *)
(*                                                                         *)
(* Python dicts keep insertion order, and save_models iterates them in     *)
(* that order, so a dict is a sequence of <<key, value>> pairs.  A file    *)
(* write (joblib.dump of one object, json.dump of the manifest) is one     *)
(* step; the process can die between two such steps.                       *)
(***************************************************************************)
EXTENDS Integers, Sequences, FiniteSets, TLC

VARIABLES
    models,        \* self.models                          (line 46)
    scalers,       \* self.scalers                         (line 47)
    disk,          \* models_dir: path -> serialized object (the .joblib files)
    manifest,      \* models_dir / 'metadata.json'
    pc,            \* "idle" | "save" | "dead" (process terminated)
    sp,            \* save_models: which of its three blocks is running
    i,             \* save_models: index of the next entry of the running loop
    trace,         \* warnings, file reads and accuracy lines of the latest call
    lastOp,        \* the latest operation performed
    phase,         \* history: "saved" -> "fresh" -> "loaded", else "none"
    savedModels,   \* history: self.models when the last save_models completed
    savedScalers,  \* history: self.scalers when the last save_models completed
    deleted,       \* history: files removed from models_dir since that save
    fromEmpty,     \* history: the running/latest save began on an empty directory
    stage,         \* how far down the list of trainers this driver has gone
    n_samples,     \* _generate_fraud_data: its argument
    fraud_data     \* _generate_fraud_data: the is_fraud column of its result

vars == <<models, scalers, disk, manifest, pc, sp, i, trace, lastOp, phase,
          savedModels, savedScalers, deleted, fromEmpty, stage,
          n_samples, fraud_data>>

genVars == <<n_samples, fraud_data>>

(***************************************************************************)
(* Bounds of the model.                                                    *)
(***************************************************************************)
MaxScore == 1      \* held-out accuracy is k / MaxScore, k in 0..MaxScore
MaxDeletes == 1    \* files removed from the directory after one save
MaxN == 64         \* largest sample count given to the fraud generator

(***************************************************************************)
(* Python dict as an insertion-ordered sequence of <<key, value>> pairs.   *)
(***************************************************************************)
Keys(d) == [k \in 1..Len(d) |-> d[k][1]]

KeySet(d) == {d[k][1] : k \in 1..Len(d)}

Get(d, key) == d[CHOOSE k \in 1..Len(d) : d[k][1] = key][2]

\* Fault variant of DictSet: the pair is appended even when the key exists.
DictSetAppendAlways(d, key, value) == Append(d, <<key, value>>)

\* d[key] = value: an existing key keeps its position, a new key is appended.
DictSet(d, key, value) ==
    IF key \in KeySet(d)
    THEN [k \in 1..Len(d) |-> IF d[k][1] = key THEN <<key, value>> ELSE d[k]]
    ELSE Append(d, <<key, value>>)

(***************************************************************************)
(* Fitted objects.  An estimator is known by its class and the pipeline    *)
(* whose data it was fitted on.  The seeds and the synthetic data are fixed, so  *)
(* a trainer fits the same object in every process; only the fraud trainer *)
(* yields different objects, as the scores decide.                         *)
(***************************************************************************)
Obj(cls, task) == [cls |-> cls, task |-> task]

None == Obj("NoneType", "")

Scores == 0..MaxScore

\* The three candidates of train_fraud_detection_model, in dict order.
FraudCandidates ==
    << <<"random_forest", Obj("RandomForestClassifier", "fraud_detection")>>,
       <<"neural_network", Obj("MLPClassifier", "fraud_detection")>>,
       <<"svm", Obj("SVC", "fraud_detection")>> >>

\* The selection loop: best_model = None, best_score = 0, then for each
\* candidate in order, replace both when score > best_score.
RECURSIVE BestFrom(_, _, _, _, _)
BestFrom(cands, scores, k, best_model, best_score) ==
    IF k > Len(cands) THEN best_model
    ELSE IF scores[k] > best_score
         THEN BestFrom(cands, scores, k + 1, cands[k][2], scores[k])
         ELSE BestFrom(cands, scores, k + 1, best_model, best_score)

BestModel(scores) == BestFrom(FraudCandidates, scores, 1, None, 0)

(***************************************************************************)
(* Paths under models_dir and the serialized form of an object.            *)
(***************************************************************************)
SaveModelPath(name) == name \o ".joblib"

SaveScalerPath(name) == name \o "_scaler.joblib"

\* Fault variant of LoadModelPath: a file name save_models never writes.
LoadModelPathWrong(name) == name \o "_model.joblib"

\* load_models looks both kinds of name up under <name>.joblib.
LoadModelPath(name) == name \o ".joblib"

LoadScalerPath(name) == name \o ".joblib"

MetadataPath == "metadata.json"

JoblibDump(obj) == <<"joblib", obj>>

JoblibLoad(blob) == blob[2]

NoManifest == [exists |-> FALSE, models |-> <<>>, scalers |-> <<>>, version |-> ""]

\* Fault variant of Metadata: the fixed list of pipelines instead of the keys.
ManifestAllNames(ms, ss) ==
    [exists |-> TRUE,
     models |-> <<"fraud_detection", "spending_prediction",
                  "sentiment_analysis", "anomaly_detection">>,
     scalers |-> <<"fraud_detection", "spending_prediction", "sentiment_analysis">>,
     version |-> "1.0.0"]

\* The metadata dict of save_models; trained_at (the wall clock) is left out.
Metadata(ms, ss) ==
    [exists |-> TRUE, models |-> Keys(ms), scalers |-> Keys(ss), version |-> "1.0.0"]

EmptyDisk == [p \in {} |-> None]

WriteFile(d, path, blob) == [p \in DOMAIN d \cup {path} |-> IF p = path THEN blob ELSE d[p]]

RemoveFile(d, path) == [p \in DOMAIN d \ {path} |-> d[p]]

(***************************************************************************)
(* load_models: the two loops over the manifest's lists, and what the call *)
(* logs and reads.                                                         *)
(***************************************************************************)
RECURSIVE LoadModelsLoop(_, _, _, _)
LoadModelsLoop(d, names, k, dsk) ==
    IF k > Len(names) THEN d
    ELSE IF LoadModelPath(names[k]) \in DOMAIN dsk
         THEN LoadModelsLoop(DictSet(d, names[k], JoblibLoad(dsk[LoadModelPath(names[k])])),
                             names, k + 1, dsk)
         ELSE LoadModelsLoop(d, names, k + 1, dsk)

RECURSIVE LoadScalersLoop(_, _, _, _)
LoadScalersLoop(d, names, k, dsk) ==
    IF k > Len(names) THEN d
    ELSE IF LoadScalerPath(names[k]) \in DOMAIN dsk
         THEN LoadScalersLoop(DictSet(d, names[k], JoblibLoad(dsk[LoadScalerPath(names[k])])),
                              names, k + 1, dsk)
         ELSE LoadScalersLoop(d, names, k + 1, dsk)

Range(seq) == {seq[k] : k \in 1..Len(seq)}

NoTrace == [warnings |-> {}, reads |-> {}, accuracy |-> <<>>]

\* Fault variant of LoadedModels: the mapping is reset when no manifest exists.
LoadedModelsClearing(ms, man, dsk) ==
    IF ~man.exists THEN <<>> ELSE LoadModelsLoop(ms, man.models, 1, dsk)

LoadedModels(ms, man, dsk) ==
    IF ~man.exists THEN ms ELSE LoadModelsLoop(ms, man.models, 1, dsk)

LoadedScalers(ss, man, dsk) ==
    IF ~man.exists THEN ss ELSE LoadScalersLoop(ss, man.scalers, 1, dsk)

\* Fault variant of LoadTrace: a warning for every listed file that is absent.
LoadTraceWarning(man, dsk) ==
    IF ~man.exists
    THEN [NoTrace EXCEPT !.warnings = {MetadataPath}]
    ELSE [NoTrace EXCEPT
            !.reads = {MetadataPath}
                      \cup ({LoadModelPath(n) : n \in Range(man.models)} \cap DOMAIN dsk)
                      \cup ({LoadScalerPath(n) : n \in Range(man.scalers)} \cap DOMAIN dsk),
            !.warnings = ({LoadModelPath(n) : n \in Range(man.models)} \ DOMAIN dsk)
                         \cup ({LoadScalerPath(n) : n \in Range(man.scalers)} \ DOMAIN dsk)]

\* logger.warning is called on the missing-manifest path only; a file that
\* exists is read, a file that does not is passed over without a log line.
LoadTrace(man, dsk) ==
    IF ~man.exists
    THEN [NoTrace EXCEPT !.warnings = {MetadataPath}]
    ELSE [NoTrace EXCEPT
            !.reads = {MetadataPath}
                      \cup ({LoadModelPath(n) : n \in Range(man.models)} \cap DOMAIN dsk)
                      \cup ({LoadScalerPath(n) : n \in Range(man.scalers)} \cap DOMAIN dsk)]

(***************************************************************************)
(* _generate_fraud_data.  n_normal = int(n_samples * 0.8): the double 0.8  *)
(* is (4 * 2^53 + 2) / (5 * 2^53), so the exact product is 4n/5 plus       *)
(* 2n / (5 * 2^53); for every n below 2^50 that excess is under one ulp    *)
(* and far below the 1/5 that separates 4n/5 from the next integer, so the *)
(* rounded product truncates to the integer quotient of 4n by 5.           *)
(***************************************************************************)
IntTimes08(n) == (4 * n) \div 5

IntTimes02(n) == n \div 5

NNormal(n) == IntTimes08(n)

\* Fault variant of NFraud: int(n_samples * 0.2) instead of the remainder.
NFraudRounded(n) == IntTimes02(n)

NFraud(n) == n - NNormal(n)

Zeros(n) == [k \in 1..n |-> 0]

Ones(n) == [k \in 1..n |-> 1]

\* Every column of the result is the normal block followed by the fraud
\* block; the is_fraud column stands for the table.
FraudTable(n) == Zeros(NNormal(n)) \o Ones(NFraud(n))

Count(seq, x) == Cardinality({k \in 1..Len(seq) : seq[k] = x})

(***************************************************************************)
(* Initial state: one driver constructed over an empty models directory.   *)
(***************************************************************************)
InitDriver ==
    /\ models = <<>>
    /\ scalers = <<>>
    /\ disk = EmptyDisk
    /\ manifest = NoManifest
    /\ pc = "idle"
    /\ sp = 0
    /\ i = 0
    /\ trace = NoTrace
    /\ lastOp = "new"
    /\ phase = "none"
    /\ savedModels = <<>>
    /\ savedScalers = <<>>
    /\ deleted = {}
    /\ fromEmpty = FALSE
    /\ stage = 0

Init ==
    /\ InitDriver
    /\ n_samples = 0
    /\ fraud_data = <<>>

\* The history is kept only along save, new driver, load; anything else drops it.
Forget ==
    /\ phase' = "none"
    /\ fromEmpty' = FALSE
    /\ savedModels' = <<>>
    /\ savedScalers' = <<>>
    /\ deleted' = {}

(***************************************************************************)
(* __init__: a new process constructs a driver with empty mappings over    *)
(* the same directory.                                                     *)
(***************************************************************************)
new_driver ==
    /\ pc \in {"idle", "dead"}
    /\ stage' = 0
    /\ models' = <<>>
    /\ scalers' = <<>>
    /\ pc' = "idle"
    /\ trace' = NoTrace
    /\ lastOp' = "new"
    /\ IF phase = "saved"
       THEN /\ phase' = "fresh"
            /\ fromEmpty' = FALSE
            /\ UNCHANGED <<savedModels, savedScalers, deleted>>
       ELSE Forget
    /\ UNCHANGED <<disk, manifest, sp, i, genVars>>

(***************************************************************************)
(* The trainers.  scores are the held-out accuracies model.score returns   *)
(* for the three candidates.  A driver calls the trainers in the order     *)
(* train_all_models does, one after the other, and may stop after any of   *)
(* them; what it has then it saves, or it loads on top of it.              *)
(***************************************************************************)
NTrainers == 4

train_fraud_detection_model(scores) ==
    /\ pc = "idle"
    /\ stage = 0
    /\ stage' = 1
    /\ models' = DictSet(models, "fraud_detection", BestModel(scores))
    /\ scalers' = DictSet(scalers, "fraud_detection",
                          Obj("StandardScaler", "fraud_detection"))
    \* best_model.predict(...) on None raises AttributeError, uncaught
    /\ pc' = IF BestModel(scores) = None THEN "dead" ELSE "idle"
    /\ trace' = [NoTrace EXCEPT !.accuracy = scores]
    /\ lastOp' = "train_fraud"
    /\ Forget
    /\ UNCHANGED <<disk, manifest, sp, i, genVars>>

train_spending_prediction_model ==
    /\ pc = "idle"
    /\ stage = 1
    /\ stage' = 2
    /\ models' = DictSet(models, "spending_prediction",
                         Obj("MLPClassifier", "spending_prediction"))
    /\ scalers' = DictSet(scalers, "spending_prediction",
                          Obj("StandardScaler", "spending_prediction"))
    /\ trace' = NoTrace
    /\ lastOp' = "train_spending"
    /\ Forget
    /\ UNCHANGED <<disk, manifest, pc, sp, i, genVars>>

train_sentiment_analysis_model ==
    /\ pc = "idle"
    /\ stage = 2
    /\ stage' = 3
    /\ models' = DictSet(models, "sentiment_analysis",
                         Obj("MultinomialNB", "sentiment_analysis"))
    /\ scalers' = DictSet(scalers, "sentiment_analysis",
                          Obj("TfidfVectorizer", "sentiment_analysis"))
    /\ trace' = NoTrace
    /\ lastOp' = "train_sentiment"
    /\ Forget
    /\ UNCHANGED <<disk, manifest, pc, sp, i, genVars>>

train_anomaly_detection_model ==
    /\ pc = "idle"
    /\ stage = 3
    /\ stage' = 4
    /\ models' = DictSet(models, "anomaly_detection",
                         Obj("IsolationForest", "anomaly_detection"))
    /\ trace' = NoTrace
    /\ lastOp' = "train_anomaly"
    /\ Forget
    /\ UNCHANGED <<scalers, disk, manifest, pc, sp, i, genVars>>

(***************************************************************************)
(* save_models, one file write per step, in the order of its statements.   *)
(***************************************************************************)
\* Fault variant of SavePhases: the manifest written before the files.
SavePhasesManifestFirst == <<"manifest", "models", "scalers">>

SavePhases == <<"models", "scalers", "manifest">>

PhaseLen(ph, ms, ss) ==
    CASE ph = "models" -> Len(ms)
      [] ph = "scalers" -> Len(ss)
      [] OTHER -> 1

\* The next write at or after entry k of block s; <<0, 0>> when none is left.
RECURSIVE NextWrite(_, _, _, _)
NextWrite(s, k, ms, ss) ==
    IF s > Len(SavePhases) THEN <<0, 0>>
    ELSE IF k > PhaseLen(SavePhases[s], ms, ss) THEN NextWrite(s + 1, 1, ms, ss)
    ELSE <<s, k>>

save_models_begin ==
    /\ pc = "idle"
    /\ pc' = "save"
    /\ sp' = NextWrite(1, 1, models, scalers)[1]
    /\ i' = NextWrite(1, 1, models, scalers)[2]
    /\ trace' = NoTrace
    /\ lastOp' = "save_begin"
    /\ phase' = "none"
    /\ fromEmpty' = (DOMAIN disk = {} /\ ~manifest.exists)
    /\ savedModels' = <<>>
    /\ savedScalers' = <<>>
    /\ deleted' = {}
    /\ stage' = NTrainers
    /\ UNCHANGED <<models, scalers, disk, manifest, genVars>>

save_models_step ==
    /\ pc = "save"
    /\ disk' = CASE SavePhases[sp] = "models" ->
                     WriteFile(disk, SaveModelPath(models[i][1]), JoblibDump(models[i][2]))
                 [] SavePhases[sp] = "scalers" ->
                     WriteFile(disk, SaveScalerPath(scalers[i][1]), JoblibDump(scalers[i][2]))
                 [] OTHER -> disk
    /\ manifest' = IF SavePhases[sp] = "manifest" THEN Metadata(models, scalers)
                   ELSE manifest
    /\ sp' = NextWrite(sp, i + 1, models, scalers)[1]
    /\ i' = NextWrite(sp, i + 1, models, scalers)[2]
    /\ IF NextWrite(sp, i + 1, models, scalers) = <<0, 0>>
       THEN /\ pc' = "idle"
            /\ lastOp' = "save"
            /\ phase' = "saved"
            /\ savedModels' = models
            /\ savedScalers' = scalers
            /\ deleted' = {}
       ELSE /\ pc' = "save"
            /\ lastOp' = "save_step"
            /\ UNCHANGED <<phase, savedModels, savedScalers, deleted>>
    /\ UNCHANGED <<models, scalers, trace, fromEmpty, stage, genVars>>

\* The process dies between two file writes of save_models.
crash ==
    /\ pc = "save"
    /\ pc' = "dead"
    /\ sp' = 0
    /\ i' = 0
    /\ lastOp' = "crash"
    /\ Forget
    /\ UNCHANGED <<models, scalers, disk, manifest, trace, stage, genVars>>

(***************************************************************************)
(* load_models, the whole call.                                            *)
(***************************************************************************)
load_models ==
    /\ pc = "idle"
    /\ models' = LoadedModels(models, manifest, disk)
    /\ scalers' = LoadedScalers(scalers, manifest, disk)
    /\ trace' = LoadTrace(manifest, disk)
    /\ lastOp' = IF lastOp \in {"load", "load_again"} THEN "load_again" ELSE "load"
    /\ IF phase = "fresh"
       THEN /\ phase' = "loaded"
            /\ fromEmpty' = FALSE
            /\ UNCHANGED <<savedModels, savedScalers, deleted>>
       ELSE Forget
    /\ stage' = NTrainers
    /\ UNCHANGED <<disk, manifest, pc, sp, i, genVars>>

(***************************************************************************)
(* The environment removes a file of the directory after a completed save, *)
(* before the next operation of any driver.                                *)
(***************************************************************************)
delete_file(path) ==
    /\ pc = "idle"
    /\ phase = "saved"
    /\ Cardinality(deleted) < MaxDeletes
    /\ \/ /\ path \in DOMAIN disk
          /\ disk' = RemoveFile(disk, path)
          /\ UNCHANGED manifest
       \/ /\ path = MetadataPath
          /\ manifest.exists
          /\ manifest' = NoManifest
          /\ UNCHANGED disk
    /\ deleted' = deleted \cup {path}
    /\ lastOp' = "delete"
    /\ fromEmpty' = FALSE
    /\ UNCHANGED <<models, scalers, pc, sp, i, trace, phase, savedModels, savedScalers,
                   stage, genVars>>

Train ==
    \/ \E scores \in [1..3 -> Scores] : train_fraud_detection_model(scores)
    \/ train_spending_prediction_model
    \/ train_sentiment_analysis_model
    \/ train_anomaly_detection_model

Next ==
    \/ new_driver
    \/ Train
    \/ save_models_begin
    \/ save_models_step
    \/ load_models

Spec == Init /\ [][Next]_vars

\* The same, with the process allowed to die in the middle of save_models.
NextCrash ==
    \/ Next
    \/ crash

SpecCrash == Init /\ [][NextCrash]_vars

\* The same, with files of the directory removed after a completed save.
NextDel ==
    \/ Next
    \/ \E path \in DOMAIN disk \cup {MetadataPath} : delete_file(path)

SpecDel == Init /\ [][NextDel]_vars

(***************************************************************************)
(* The generator on its own: any sample count, then one call.              *)
(***************************************************************************)
InitGen ==
    /\ InitDriver
    /\ n_samples \in 0..MaxN
    /\ fraud_data = <<>>
    /\ lastOp = "new"

_generate_fraud_data ==
    /\ lastOp = "new"
    /\ fraud_data' = FraudTable(n_samples)
    /\ lastOp' = "generate"
    /\ UNCHANGED <<models, scalers, disk, manifest, pc, sp, i, trace, phase,
                   savedModels, savedScalers, deleted, fromEmpty, stage, n_samples>>

NextGen == _generate_fraud_data

SpecGen == InitGen /\ [][NextGen]_vars

(***************************************************************************)
(* Properties.                                                             *)
(***************************************************************************)
SameEntries(d, e) ==
    /\ KeySet(d) = KeySet(e)
    /\ \A k \in KeySet(e) : Get(d, k) = Get(e, k)

\* C1: after a completed save_models, load_models on a fresh driver over the
\* intact directory yields a model mapping with the saved key set, each key
\* mapped to the object saved under it.
RoundTripModels == phase = "loaded" => SameEntries(models, savedModels)

RoundTripModelsWitness ==
    /\ phase = "loaded"
    /\ Len(savedModels) = NTrainers
    /\ Get(models, "fraud_detection") = Obj("SVC", "fraud_detection")

\* C2: after a completed save_models, load_models on a fresh driver maps every
\* saved scaler key to the scaler object that was saved under it.
RoundTripScalers == phase = "loaded" => SameEntries(scalers, savedScalers)

\* C3: with exactly one backing file of the manifest removed after the save,
\* load_models on a fresh driver leaves out exactly the name of that file,
\* from the mapping that file belongs to, and loads every other listed name.
MissingFileTolerance ==
    (/\ phase = "loaded"
     /\ Cardinality(deleted) = 1
     /\ MetadataPath \notin deleted)
    => /\ pc = "idle"
       /\ \A n \in KeySet(savedModels) :
            n \in KeySet(models) <=> SaveModelPath(n) \notin deleted
       /\ \A n \in KeySet(savedScalers) :
            n \in KeySet(scalers) <=> SaveScalerPath(n) \notin deleted

Untouched(d, e, n) ==
    /\ n \in KeySet(d) <=> n \in KeySet(e)
    /\ n \in KeySet(d) => Get(d, n) = Get(e, n)

MissingManifestNoop ==
    [][(load_models /\ ~manifest.exists)
       => /\ trace'.warnings = {MetadataPath}
          /\ trace'.reads = {}
          /\ pc' = "idle"
          /\ models' = models
          /\ scalers' = scalers]_vars

MissingManifestWitness ==
    /\ lastOp = "load"
    /\ ~manifest.exists
    /\ Len(models) > 0
    /\ trace.warnings = {MetadataPath}

\* C6: a load_models that directly follows a load_models on the same driver,
\* the directory untouched in between, changes neither mapping.
LoadIdempotent ==
    [][(load_models /\ lastOp \in {"load", "load_again"})
       => (models' = models /\ scalers' = scalers)]_vars

LoadIdempotentWitness ==
    /\ lastOp = "load_again"
    /\ manifest.exists
    /\ Len(models) = NTrainers
    /\ Len(scalers) > 0

Listed(man, dsk) ==
    /\ \A n \in Range(man.models) : SaveModelPath(n) \in DOMAIN dsk
    /\ \A n \in Range(man.scalers) : SaveScalerPath(n) \in DOMAIN dsk

\* C7: during and after a save_models that began on an empty directory,
\* whenever metadata.json exists it lists exactly the keys of the two
\* mappings and every listed name has its file.
ManifestIntegrity ==
    (fromEmpty /\ manifest.exists)
    => /\ Range(manifest.models) = KeySet(models)
       /\ Range(manifest.scalers) = KeySet(scalers)
       /\ Listed(manifest, disk)

ManifestIntegrityWitness ==
    /\ fromEmpty
    /\ manifest.exists
    /\ lastOp = "save"
    /\ Len(models) = NTrainers

PartialModelSet == \E n \in KeySet(models) : SaveModelPath(n) \notin DOMAIN disk

\* C8, as stated, for the case it describes: an interrupted save_models that
\* leaves a partial model set beside a manifest leaves the manifest listing a
\* name whose backing file is not on disk.
CrashLeavesDanglingManifest ==
    (lastOp = "crash" /\ manifest.exists /\ PartialModelSet) => ~Listed(manifest, disk)

\* C8, amended: interrupted or not, save_models never leaves a manifest that
\* lists a name whose backing file is not on disk.
ManifestNeverDangling == manifest.exists => Listed(manifest, disk)

ManifestNeverDanglingWitness ==
    /\ lastOp = "crash"
    /\ manifest.exists
    /\ PartialModelSet

\* C9: the fraud table has n_samples rows, floor(0.8 n) of them normal and
\* the other n - floor(0.8 n) fraud, which is within 1 of 20% of n; it is
\* empty at n = 0.
FraudDataShape ==
    lastOp = "generate"
    => /\ Len(fraud_data) = n_samples
       /\ Count(fraud_data, 0) = (4 * n_samples) \div 5
       /\ Count(fraud_data, 1) = n_samples - ((4 * n_samples) \div 5)
       /\ 5 * Count(fraud_data, 1) - n_samples \in -5..5
       /\ n_samples = 0 => fraud_data = <<>>

FraudDataShapeWitness ==
    /\ lastOp = "generate"
    /\ n_samples = 7
    /\ Count(fraud_data, 1) = 2
    /\ Count(fraud_data, 0) = 5

\* C10: whatever the three scores, the fraud trainer stores one of the three
\* candidates, one whose score no other candidate exceeds, and the scaler.
FraudBestStored ==
    lastOp = "train_fraud"
    => /\ \E k \in 1..Len(FraudCandidates) :
            /\ Get(models, "fraud_detection") = FraudCandidates[k][2]
            /\ \A j \in 1..Len(FraudCandidates) : trace.accuracy[k] >= trace.accuracy[j]
       /\ Get(scalers, "fraud_detection") = Obj("StandardScaler", "fraud_detection")

====
